---- MODULE Spec2Model ----
(***************************************************************************)
(* Model of the video authenticity engines:                                *)
(*   backend/app/detection_engine.py   DeepfakeDetectionEngine             *)
(*   backend/app/geospatial_engine.py  GeospatialVerificationEngine        *)
(*                                                                         *)
(* Numbers.  The code computes in floating point.  The model keeps every   *)
(* sub-score in hundredths (50 = 0.5) and every fused score, confidence    *)
(* and probability in ten-thousandths (7000 = 0.7), so that the weighted   *)
(* sums and the threshold comparisons are exact; a quotient such as        *)
(* 1/(1+variance) is rounded down to the hundredth.                        *)
(*                                                                         *)
(* Frames.  A decoded frame is represented by the values the OpenCV calls  *)
(* of the analyzers compute from it: the number of faces the cascade       *)
(* finds, the mean of the L channel, the std of the high-pass response     *)
(* (hundredths of 255) and a scene position whose difference between two   *)
(* frames is the mean optical-flow magnitude of the pair.                  *)
(***************************************************************************)
EXTENDS Integers, Sequences, FiniteSets, TLC

\* ---------------------------------------------------------------- bounds
MaxT == 3            \* longest source video, in frames
MaxFramesArg == 2    \* largest max_frames of a direct extract_frames call
MaxSampleT == 5      \* longest source of a direct extract_frames call
MaxClock == 1        \* seconds the wall clock advances
MaxHeatmapN == 13    \* longest frame list of a direct _generate_heatmap_frames call
MaxRequests == 3     \* /video/analyze requests received for the video

\* ------------------------------------------------------ program constants
DefaultMaxFrames == 100     \* extract_frames(video_path, max_frames=100)
GeoMaxFrames == 20          \* _extract_sample_frames(video_path, max_frames=20)
DeepfakeThreshold == 7000   \* deepfake_score > 0.7
RealThreshold == 3000       \* deepfake_score < 0.3
VerifiedThreshold == 7000   \* verification_confidence > 0.7
SuspiciousThreshold == 3000 \* verification_confidence < 0.3
DefaultMetric == 50         \* .get(<metric>, 0.5)
DaySeconds == 86400         \* time_diff > 86400

\* ---------------------------------------------------------------- inputs
\* The frames a source video is made of.
FrameKinds ==
  { [faces |-> 0, lum |-> 100, art |-> 0,  pos |-> 0],
    [faces |-> 2, lum |-> 120, art |-> 0,  pos |-> 30],
    [faces |-> 1, lum |-> 100, art |-> 40, pos |-> 0] }

RECURSIVE SeqsUpTo(_, _)
SeqsUpTo(S, n) ==
  IF n = 0 THEN { <<>> }
  ELSE LET shorter == SeqsUpTo(S, n - 1)
       IN  shorter \cup { Append(s, x) : s \in { t \in shorter : Len(t) = n - 1 }, x \in S }

Videos == SeqsUpTo(FrameKinds, MaxT)

\* videos whose frames all look the same, of every length up to n
PlainFrame == [faces |-> 0, lum |-> 100, art |-> 0, pos |-> 0]
PlainVideos(n) == SeqsUpTo({ PlainFrame }, n)

\* audio_path: not given, given but no such file, given and the file exists
AudioPaths == { "none", "missing", "exists" }

\* ---------------------------------------------------------------- helpers
Max(a, b) == IF a >= b THEN a ELSE b
Min(a, b) == IF a <= b THEN a ELSE b
Abs(a) == IF a < 0 THEN 0 - a ELSE a

RECURSIVE SumSeq(_)
SumSeq(xs) == IF xs = <<>> THEN 0 ELSE Head(xs) + SumSeq(Tail(xs))

RECURSIVE MaxSeq(_)
MaxSeq(xs) == IF Len(xs) = 1 THEN Head(xs) ELSE Max(Head(xs), MaxSeq(Tail(xs)))

Squares(xs) == [i \in 1..Len(xs) |-> xs[i] * xs[i]]

\* np.var(xs) = VarNum(xs) / Len(xs)^2  (population variance)
VarNum(xs) == Len(xs) * SumSeq(Squares(xs)) - SumSeq(xs) * SumSeq(xs)

\* dict.get(key, default)
Get(d, key, default) == IF key \in DOMAIN d THEN d[key] ELSE default

EmptyDict == [k \in {} |-> 0]

\* ------------------------------------------------------ the frame sampler
FrameIntervalOff(total, maxf) == total \div maxf + 1

\* frame_interval = max(1, total_frames // max_frames)
FrameInterval(total, maxf) == Max(1, total \div maxf)

LoopContinuesOff(fr, fc, maxf, total) == Len(fr) <= maxf /\ fc < total

\* while len(frames) < max_frames and frame_count < total_frames
LoopContinues(fr, fc, maxf, total) == Len(fr) < maxf /\ fc < total

KeepsOff(ret, fc, interval) == ret

\* if ret and frame_count % frame_interval == 0
Keeps(ret, fc, interval) == ret /\ fc % interval = 0

\* ------------------------------------------------- deepfake signal suite
\* The frames list holds source positions (0-based); Frame(v, p) is the frame.
Frame(v, p) == v[p + 1]

FaceCounts(v, fr) == [i \in 1..Len(fr) |-> Frame(v, fr[i]).faces]
Lightings(v, fr) == [i \in 1..Len(fr) |-> Frame(v, fr[i]).lum]
ArtifactScores(v, fr) == [i \in 1..Len(fr) |-> Frame(v, fr[i]).art]
MotionScores(v, fr) ==
  [i \in 1..(Len(fr) - 1) |-> Abs(Frame(v, fr[i + 1]).pos - Frame(v, fr[i]).pos)]

analyze_face_consistencyOff(v, fr) ==
  IF Len(fr) < 1
  THEN [consistency_score |-> 0, face_count_variance |-> 0]
  ELSE LET xs == FaceCounts(v, fr)
           n2 == Len(xs) * Len(xs)
       IN  [consistency_score |-> (100 * n2) \div (n2 + VarNum(xs)),
            face_count_variance |-> (100 * VarNum(xs)) \div n2,
            total_faces_detected |-> SumSeq(xs)]

analyze_face_consistency(v, fr) ==
  IF Len(fr) < 2
  THEN [consistency_score |-> 0, face_count_variance |-> 0]
  ELSE LET xs == FaceCounts(v, fr)
           n2 == Len(xs) * Len(xs)
       IN  [consistency_score |-> (100 * n2) \div (n2 + VarNum(xs)),
            face_count_variance |-> (100 * VarNum(xs)) \div n2,
            total_faces_detected |-> SumSeq(xs)]

analyze_lighting_consistencyOff(v, fr) ==
  IF Len(fr) < 1
  THEN [lighting_variance |-> 0, shadow_consistency |-> 0]
  ELSE LET xs == Lightings(v, fr)
           n2 == Len(xs) * Len(xs)
       IN  [lighting_variance |-> (100 * VarNum(xs)) \div n2,
            shadow_consistency |-> (100 * 100 * n2) \div (100 * n2 + VarNum(xs)),
            mean_lighting |-> (100 * SumSeq(xs)) \div Len(xs)]

analyze_lighting_consistency(v, fr) ==
  IF Len(fr) < 2
  THEN [lighting_variance |-> 0, shadow_consistency |-> 0]
  ELSE LET xs == Lightings(v, fr)
           n2 == Len(xs) * Len(xs)
       IN  [lighting_variance |-> (100 * VarNum(xs)) \div n2,
            shadow_consistency |-> (100 * 100 * n2) \div (100 * n2 + VarNum(xs)),
            mean_lighting |-> (100 * SumSeq(xs)) \div Len(xs)]

\* np.max of an empty list raises ValueError: the analyzer raises on no frames
CompressionRaises(fr) == Len(fr) = 0

analyze_compression_artifacts(v, fr) ==
  LET xs == ArtifactScores(v, fr)
      n2 == Len(xs) * Len(xs)
  IN  [mean_artifact_score |-> SumSeq(xs) \div Len(xs),
       artifact_variance |-> IF Len(xs) > 1 THEN VarNum(xs) \div n2 ELSE 0,
       max_artifact_score |-> MaxSeq(xs)]

analyze_temporal_consistency(v, fr) ==
  IF Len(fr) < 2
  THEN [motion_consistency |-> 0, temporal_variance |-> 0]
  ELSE LET xs == MotionScores(v, fr)
           n2 == Len(xs) * Len(xs)
           num == IF Len(xs) > 1 THEN VarNum(xs) ELSE 0
       IN  [motion_consistency |-> (100 * 100 * n2) \div (100 * n2 + num),
            temporal_variance |-> (100 * num) \div n2,
            mean_motion |-> (100 * SumSeq(xs)) \div Len(xs)]

detect_audio_manipulation ==
  [audio_manipulation_score |-> 10, voice_consistency |-> 90, audio_quality |-> 80]

\* what detect_audio_manipulation returns from its except block
AudioFallback ==
  [audio_manipulation_score |-> 50, voice_consistency |-> 50, audio_quality |-> 50]

\* ------------------------------------------------------- deepfake fusion
FusionWeightsOff ==
  [face_consistency |-> 30, lighting_consistency |-> 20, compression_artifacts |-> 25,
   temporal_consistency |-> 15, audio_manipulation |-> 20]

\* weights of calculate_deepfake_score, in hundredths
FusionWeights ==
  [face_consistency |-> 30, lighting_consistency |-> 20, compression_artifacts |-> 25,
   temporal_consistency |-> 15, audio_manipulation |-> 10]

FusedScoresOff(ar) ==
  [face_consistency |->
     Get(Get(ar, "face_consistency", EmptyDict), "consistency_score", DefaultMetric),
   lighting_consistency |->
     Get(Get(ar, "lighting_consistency", EmptyDict), "shadow_consistency", DefaultMetric),
   compression_artifacts |->
     100 - Get(Get(ar, "compression_artifacts", EmptyDict), "mean_artifact_score", DefaultMetric),
   temporal_consistency |->
     Get(Get(ar, "temporal_consistency", EmptyDict), "motion_consistency", DefaultMetric),
   audio_manipulation |->
     Get(Get(ar, "audio_manipulation", EmptyDict), "audio_manipulation_score", DefaultMetric)]

\* the five fused sub-scores, in hundredths; a missing report or key counts 0.5
FusedScores(ar) ==
  [face_consistency |->
     Get(Get(ar, "face_consistency", EmptyDict), "consistency_score", DefaultMetric),
   lighting_consistency |->
     Get(Get(ar, "lighting_consistency", EmptyDict), "shadow_consistency", DefaultMetric),
   compression_artifacts |->
     100 - Get(Get(ar, "compression_artifacts", EmptyDict), "mean_artifact_score", DefaultMetric),
   temporal_consistency |->
     Get(Get(ar, "temporal_consistency", EmptyDict), "motion_consistency", DefaultMetric),
   audio_manipulation |->
     100 - Get(Get(ar, "audio_manipulation", EmptyDict), "audio_manipulation_score", DefaultMetric)]

WeightKeys ==
  << "face_consistency", "lighting_consistency", "compression_artifacts",
     "temporal_consistency", "audio_manipulation" >>

\* weighted_score = sum(weights[key] * scores[key] for key in weights), in 1/10000
WeightedScore(ar) ==
  SumSeq([i \in 1..Len(WeightKeys) |->
            FusionWeights[WeightKeys[i]] * FusedScores(ar)[WeightKeys[i]]])

\* deepfake_probability = 1.0 - weighted_score
calculate_deepfake_score(ar) == 10000 - WeightedScore(ar)

ClassifyOff(score) ==
  IF score >= DeepfakeThreshold THEN "deepfake"
  ELSE IF score <= RealThreshold THEN "real"
  ELSE "uncertain"

\* if deepfake_score > 0.7 ... elif deepfake_score < 0.3 ... else
Classify(score) ==
  IF score > DeepfakeThreshold THEN "deepfake"
  ELSE IF score < RealThreshold THEN "real"
  ELSE "uncertain"

ConfidenceOff(classification, score) ==
  IF classification = "uncertain" THEN score ELSE 10000 - score

\* confidence = 1.0 - deepfake_score if classification == "real" else deepfake_score
Confidence(classification, score) ==
  IF classification = "real" THEN 10000 - score ELSE score

\* for i in range(min(10, len(frames))): if i % 3 == 0: append(float(i))
RECURSIVE HeatmapUpTo(_)
HeatmapUpTo(k) ==
  IF k = 0 THEN <<>>
  ELSE IF (k - 1) % 3 = 0 THEN Append(HeatmapUpTo(k - 1), k - 1)
  ELSE HeatmapUpTo(k - 1)

generate_heatmap_framesOff(fr, ar) == HeatmapUpTo(Len(fr))

\* _generate_heatmap_frames(frames, analysis_results)
generate_heatmap_frames(fr, ar) ==
  IF Len(fr) = 0 THEN <<>> ELSE HeatmapUpTo(Min(10, Len(fr)))

\* the record analyze_video returns from its try block
AnalysisRecord(ar, fr) ==
  LET score == calculate_deepfake_score(ar)
      classification == Classify(score)
  IN  [classification |-> classification,
       confidence |-> Confidence(classification, score),
       deepfake_score |-> score,
       manipulation_indicators |-> ar,
       heatmap_frames |-> generate_heatmap_frames(fr, ar),
       processing_time |-> 0,
       model_version |-> "1.0.0",
       frames_analyzed |-> Len(fr)]

AnalysisErrorOff ==
  [classification |-> "uncertain", confidence |-> 5000, deepfake_score |-> 5000,
   manipulation_indicators |-> EmptyDict, heatmap_frames |-> <<>>,
   processing_time |-> 0, model_version |-> "1.0.0", error |-> "exception"]

\* the record analyze_video returns from its except block
AnalysisError ==
  [classification |-> "error", confidence |-> 0, deepfake_score |-> 5000,
   manipulation_indicators |-> EmptyDict, heatmap_frames |-> <<>>,
   processing_time |-> 0, model_version |-> "1.0.0", error |-> "exception"]

\* ------------------------------------------------ geospatial signal suite
\* An Optional field is <<>> (None) or <<value>>.
None == <<>>
Some(x) == <<x>>

\* Python truth value of an Optional number: None and 0 are false
Truthy(o) == o # None /\ o[1] # 0

\* Where the timestamp of a GPSMetadata comes from: no timestamp, the wall
\* clock at extraction (datetime.now()), or an instant fixed in the container.
\* Instants are seconds on the model clock, which starts at 0.
TimestampSources ==
  { [kind |-> "none", at |-> 0], [kind |-> "now", at |-> 0] }
    \cup { [kind |-> "embedded", at |-> t] : t \in { 0 - 86400, 0 - 90000, 90000 } }

\* The location metadata behind video_path: accuracy in tenths of a metre,
\* satellites a count.
Containers ==
  [ts : TimestampSources,
   accuracy : { None, Some(0), Some(5), Some(50), Some(510) },
   satellites : { None, Some(0), Some(3), Some(8), Some(13) }]

\* what extract_gps_metadata fills in: timestamp now, accuracy 5.0, satellites 8
SimulatedContainer ==
  [ts |-> [kind |-> "now", at |-> 0], accuracy |-> Some(50), satellites |-> Some(8)]

\* the GPSMetadata built at clock time t
GPSMetadataOf(c, t) ==
  [timestamp |-> IF c.ts.kind = "none" THEN None
                 ELSE IF c.ts.kind = "now" THEN Some(t)
                 ELSE Some(c.ts.at),
   accuracy |-> c.accuracy,
   satellites |-> c.satellites]

TimestampMismatchOff(g, t) ==
  IF g.timestamp # None
  THEN IF Abs(t - g.timestamp[1]) >= DaySeconds THEN 8000 ELSE 1000
  ELSE 5000

\* time_diff = abs((datetime.now() - gps_data.timestamp).total_seconds())
TimestampMismatch(g, t) ==
  IF g.timestamp # None
  THEN IF Abs(t - g.timestamp[1]) > DaySeconds THEN 8000 ELSE 1000
  ELSE 5000

AccuracyAnomaly(g) ==
  IF Truthy(g.accuracy)
  THEN IF g.accuracy[1] < 10 THEN 7000
       ELSE IF g.accuracy[1] > 500 THEN 6000
       ELSE 1000
  ELSE 5000

SatelliteAnomaly(g) ==
  IF Truthy(g.satellites)
  THEN IF g.satellites[1] < 4 THEN 8000
       ELSE IF g.satellites[1] > 12 THEN 6000
       ELSE 1000
  ELSE 5000

ManipulationScores(g, t) ==
  [gps_jump |-> 1000,
   timestamp_mismatch |-> TimestampMismatch(g, t),
   accuracy_anomaly |-> AccuracyAnomaly(g),
   satellite_anomaly |-> SatelliteAnomaly(g)]

PatternKeys == << "gps_jump", "timestamp_mismatch", "accuracy_anomaly", "satellite_anomaly" >>

detect_gps_manipulationOff(g, t) ==
  LET ms == ManipulationScores(g, t)
      total == SumSeq([i \in 1..Len(PatternKeys) |-> ms[PatternKeys[i]]])
  IN  [manipulation_scores |-> ms,
       overall_manipulation_probability |-> total \div Cardinality(DOMAIN ms),
       suspicious_patterns |-> { k \in DOMAIN ms : ms[k] >= 5000 }]

detect_gps_manipulation(g, t) ==
  LET ms == ManipulationScores(g, t)
      total == SumSeq([i \in 1..Len(PatternKeys) |-> ms[PatternKeys[i]]])
  IN  [manipulation_scores |-> ms,
       overall_manipulation_probability |-> total \div Cardinality(DOMAIN ms),
       suspicious_patterns |-> { k \in DOMAIN ms : ms[k] > 5000 }]

\* _analyze_location_indicators, values in hundredths
analyze_location_indicators(fr) ==
  IF Len(fr) = 0
  THEN [indicators_found |-> 0, consistency |-> 0]
  ELSE [indicators_found |-> 60, consistency |-> 80, landmark_detection |-> 70,
        text_recognition |-> 50, weather_consistency |-> 90]

LocationWeights ==
  [indicators_found |-> 30, consistency |-> 40, landmark_detection |-> 20,
   text_recognition |-> 10]

LocationKeys ==
  << "indicators_found", "consistency", "landmark_detection", "text_recognition" >>

calculate_location_consistencyOff(ind) ==
  IF DOMAIN ind = {} THEN 0
  ELSE LET present == SelectSeq(LocationKeys, LAMBDA k : k \in DOMAIN ind)
           total_score == SumSeq([i \in 1..Len(present) |->
                                    ind[present[i]] * LocationWeights[present[i]]])
           total_weight == SumSeq([i \in 1..Len(LocationKeys) |->
                                     LocationWeights[LocationKeys[i]]])
       IN  IF total_weight > 0 THEN (total_score * 100) \div total_weight ELSE 0

\* _calculate_location_consistency, result in 1/10000
calculate_location_consistency(ind) ==
  IF DOMAIN ind = {} THEN 0
  ELSE LET present == SelectSeq(LocationKeys, LAMBDA k : k \in DOMAIN ind)
           total_score == SumSeq([i \in 1..Len(present) |->
                                    ind[present[i]] * LocationWeights[present[i]]])
           total_weight == SumSeq([i \in 1..Len(present) |-> LocationWeights[present[i]]])
       IN  IF total_weight > 0 THEN (total_score * 100) \div total_weight ELSE 0

\* what verify_location_consistency returns from its try block
LocationReport(fr) ==
  LET ind == analyze_location_indicators(fr)
  IN  [consistency_score |-> calculate_location_consistency(ind),
       location_indicators |-> ind,
       verification_method |-> "visual_analysis"]

\* what verify_location_consistency returns from its except block
LocationFallback ==
  [consistency_score |-> 5000, location_indicators |-> EmptyDict,
   verification_method |-> "error", error |-> "exception"]

\* ------------------------------------------------------ geospatial fusion
VerificationConfidenceOff(cs, mp) == (cs + mp) \div 2

\* verification_confidence = (consistency_score + (1 - manipulation_probability)) / 2
VerificationConfidence(cs, mp) == (cs + (10000 - mp)) \div 2

GeoStatusOff(conf) ==
  IF conf >= VerifiedThreshold THEN "verified"
  ELSE IF conf < SuspiciousThreshold THEN "suspicious"
  ELSE "uncertain"

\* if verification_confidence > 0.7 ... elif verification_confidence < 0.3 ... else
GeoStatus(conf) ==
  IF conf > VerifiedThreshold THEN "verified"
  ELSE IF conf < SuspiciousThreshold THEN "suspicious"
  ELSE "uncertain"

\* the record verify_geospatial_authenticity returns at the end of its try block
GeoRecord(g, lc, gm) ==
  LET conf == VerificationConfidence(Get(lc, "consistency_score", 5000),
                                     Get(gm, "overall_manipulation_probability", 5000))
  IN  [verification_status |-> GeoStatus(conf),
       verification_confidence |-> conf,
       gps_metadata |-> g,
       location_consistency |-> lc,
       gps_manipulation |-> gm,
       processing_time |-> 0,
       verification_methods |-> << "gps_analysis", "visual_analysis" >>]

\* the record returned when no GPS metadata was extracted
GeoFailed ==
  [verification_status |-> "failed", error |-> "No GPS metadata found",
   processing_time |-> 0]

GeoErrorOff ==
  [verification_status |-> "failed", verification_confidence |-> 0,
   error |-> "exception", processing_time |-> 0]

\* the record verify_geospatial_authenticity returns from its except block
GeoError ==
  [verification_status |-> "error", verification_confidence |-> 0,
   error |-> "exception", processing_time |-> 0]

\* ------------------------------------------------------------------ state
VARIABLES
  call,                \* the entry point running: none, analyze, extract, score,
                       \* heatmap, verify
  pc,                  \* position inside the call
  video,               \* the source video behind video_path
  audio_path,          \* analyze_video's audio_path
  container,           \* the location metadata behind video_path
  max_frames,          \* the sampler's max_frames
  handles,             \* cv2.VideoCapture handles opened and not released
  total_frames,        \* sampler local
  frame_interval,      \* sampler local
  frame_count,         \* sampler local
  frames,              \* sampler local: source positions of the kept frames
  analysis_results,    \* analyze_video: the signal reports gathered so far
  gps_data,            \* verify: None or Some(GPSMetadata)
  location_consistency,\* verify local
  gps_manipulation,    \* verify local
  result,              \* the value returned to the caller
  raised,              \* an exception left the entry point
  exception,           \* the exception that ended the call, "none" if none did
  invoked,             \* sub-analyzers called so far
  env,                 \* what the decoder and the libraries did during the call:
                       \* read_ok, read_failed, raised
  now,                 \* the wall clock, in seconds
  prev,                \* None, or Some(result of the earlier call on this input)
  video_status,        \* Video.status of the one video, as committed
  analysis_rows,       \* committed AnalysisResult rows of the video
  geo_rows,            \* committed GeospatialData rows of the video
  req,                 \* the /video/analyze requests being served, by slot
  started              \* /video/analyze requests received so far

vars ==
  << call, pc, video, audio_path, container, max_frames, handles, total_frames,
     frame_interval, frame_count, frames, analysis_results, gps_data,
     location_consistency, gps_manipulation, result, raised, exception, invoked, env,
     now, prev, video_status, analysis_rows, geo_rows, req, started >>

inputVars == << video, audio_path, container >>
samplerVars == << handles, total_frames, frame_interval, frame_count, frames >>
geoVars == << gps_data, location_consistency, gps_manipulation >>
clockVars == << now, prev >>
webVars == << video_status, analysis_rows, geo_rows, req, started >>
engineData ==
  << inputVars, max_frames, samplerVars, analysis_results, geoVars, result, raised,
     exception, invoked, env, clockVars >>

\* the slots in which /video/analyze requests for the video are served
Requests == { 1, 2 }

\* a slot before its request: nothing looked up, computed, added or committed
IdleRequest ==
  [at |-> "idle", authorized |-> FALSE, existed |-> FALSE,
   deepfake_analysis |-> [pending |-> TRUE], geospatial_analysis |-> [pending |-> TRUE],
   session |-> <<>>, engine_calls |-> 0, commits |-> 0, inserted |-> 0,
   response |-> [pending |-> TRUE]]

NoResult == [pending |-> TRUE]

\* the decoder read every frame it was asked for and no library call raised
Clean(e) == e \cap { "read_failed", "raised" } = {}

Init ==
  /\ call = "none"
  /\ pc = "idle"
  /\ video = <<>>
  /\ audio_path = "none"
  /\ container = SimulatedContainer
  /\ max_frames = DefaultMaxFrames
  /\ handles = 0
  /\ total_frames = 0
  /\ frame_interval = 1
  /\ frame_count = 0
  /\ frames = <<>>
  /\ analysis_results = EmptyDict
  /\ gps_data = None
  /\ location_consistency = EmptyDict
  /\ gps_manipulation = EmptyDict
  /\ result = NoResult
  /\ raised = FALSE
  /\ exception = "none"
  /\ invoked = {}
  /\ env = {}
  /\ now = 0
  /\ prev = None
  /\ video_status = "uploaded"
  /\ analysis_rows = <<>>
  /\ geo_rows = <<>>
  /\ req = [r \in Requests |-> IdleRequest]
  /\ started = 0

\* ------------------------------------------------------------ entry points
\* analyze_video(video_path, audio_path): frames = self.extract_frames(video_path)
StartAnalyze ==
  /\ pc = "idle"
  /\ \E v \in Videos, a \in AudioPaths :
       /\ video' = v
       /\ audio_path' = a
  /\ call' = "analyze"
  /\ max_frames' = DefaultMaxFrames
  /\ invoked' = invoked \cup { "extract_frames" }
  /\ pc' = "open"
  /\ UNCHANGED << container, samplerVars, analysis_results, geoVars, result, raised,
                  exception, env, clockVars >>
  /\ UNCHANGED webVars

\* a direct call extract_frames(video_path, max_frames); the sampler never looks
\* into a frame, so the sources are plain videos of every length
StartExtract ==
  /\ pc = "idle"
  /\ \E v \in PlainVideos(MaxSampleT), m \in 0..MaxFramesArg :
       /\ video' = v
       /\ max_frames' = m
  /\ call' = "extract"
  /\ invoked' = invoked \cup { "extract_frames" }
  /\ pc' = "open"
  /\ UNCHANGED << audio_path, container, samplerVars, analysis_results, geoVars, result,
                  raised, exception, env, clockVars >>
  /\ UNCHANGED webVars

\* verify_geospatial_authenticity(video_path): gps_data = self.extract_gps_metadata(..)
\* The geospatial engine never looks into a frame either.
StartVerify ==
  /\ pc = "idle"
  /\ \E v \in PlainVideos(MaxT), c \in Containers :
       /\ video' = v
       /\ container' = c
  /\ call' = "verify"
  /\ invoked' = invoked \cup { "extract_gps_metadata" }
  /\ pc' = "gps"
  /\ UNCHANGED << audio_path, max_frames, samplerVars, analysis_results, geoVars, result,
                  raised, exception, env, clockVars >>
  /\ UNCHANGED webVars

\* the caller repeats a call that completed undisturbed, on the same input
Again ==
  /\ pc = "done"
  /\ prev = None
  /\ call \in { "analyze", "verify" }
  /\ Clean(env) /\ exception = "none"
  /\ prev' = Some(result)
  /\ pc' = IF call = "analyze" THEN "open" ELSE "gps"
  /\ invoked' = IF call = "analyze" THEN { "extract_frames" } ELSE { "extract_gps_metadata" }
  /\ max_frames' = DefaultMaxFrames
  /\ total_frames' = 0
  /\ frame_interval' = 1
  /\ frame_count' = 0
  /\ frames' = <<>>
  /\ analysis_results' = EmptyDict
  /\ gps_data' = None
  /\ location_consistency' = EmptyDict
  /\ gps_manipulation' = EmptyDict
  /\ result' = NoResult
  /\ env' = {}
  /\ UNCHANGED << call, inputVars, handles, raised, exception, now >>
  /\ UNCHANGED webVars

\* time passes: between the extraction of the metadata and its analysis, and
\* between two calls
Tick ==
  /\ \/ pc = "check"
     \/ pc = "done" /\ prev = None /\ call \in { "analyze", "verify" }
  /\ now < MaxClock
  /\ now' = now + 1
  /\ UNCHANGED << call, pc, inputVars, max_frames, samplerVars, analysis_results, geoVars,
                  result, raised, exception, invoked, env, prev >>
  /\ UNCHANGED webVars

\* ------------------------------------ extract_frames / _extract_sample_frames
\* cap = cv2.VideoCapture(video_path); total_frames; frame_interval; frame_count = 0
SampleOpen ==
  /\ pc = "open"
  /\ max_frames # 0
  /\ handles' = handles + 1
  /\ total_frames' = Len(video)
  /\ frame_interval' = FrameInterval(Len(video), max_frames)
  /\ frame_count' = 0
  /\ frames' = <<>>
  /\ pc' = "loop"
  /\ UNCHANGED << call, inputVars, max_frames, analysis_results, geoVars, result,
                  raised, exception, invoked, env, clockVars >>
  /\ UNCHANGED webVars

\* total_frames // max_frames with max_frames = 0 raises ZeroDivisionError after
\* the capture was opened.  Only a direct call can pass 0 (analyze_video passes
\* the default 100, verify_location_consistency passes 20), so the exception
\* leaves extract_frames.
SampleOpenRaises ==
  /\ pc = "open"
  /\ max_frames = 0
  /\ call = "extract"
  /\ handles' = handles + 1
  /\ total_frames' = Len(video)
  /\ exception' = "ZeroDivisionError"
  /\ raised' = TRUE
  /\ pc' = "done"
  /\ UNCHANGED << call, inputVars, max_frames, frame_interval, frame_count, frames,
                  analysis_results, geoVars, result, invoked, env, clockVars >>
  /\ UNCHANGED webVars

\* one iteration of the while loop; a read may fail (ret false)
SampleRead ==
  /\ pc = "loop"
  /\ LoopContinues(frames, frame_count, max_frames, total_frames)
  /\ \E ret \in BOOLEAN :
       /\ frames' = IF Keeps(ret, frame_count, frame_interval)
                    THEN Append(frames, frame_count)
                    ELSE frames
       /\ env' = env \cup { IF ret THEN "read_ok" ELSE "read_failed" }
  /\ frame_count' = frame_count + 1
  /\ UNCHANGED << call, pc, inputVars, max_frames, handles, total_frames,
                  frame_interval, analysis_results, geoVars, result, raised, exception,
                  invoked, clockVars >>
  /\ UNCHANGED webVars

\* the pc at which the caller goes on once the sampler has returned
AfterSampler(c) ==
  IF c = "analyze" THEN "face" ELSE IF c = "verify" THEN "indicators" ELSE "done"

\* the loop condition fails: cap.release(); return frames
SampleReturn ==
  /\ pc = "loop"
  /\ ~LoopContinues(frames, frame_count, max_frames, total_frames)
  /\ handles' = handles - 1
  /\ pc' = AfterSampler(call)
  /\ result' = IF call = "extract" THEN [frames |-> frames] ELSE result
  /\ UNCHANGED << call, inputVars, max_frames, total_frames, frame_interval,
                  frame_count, frames, analysis_results, geoVars, raised, exception,
                  invoked, env, clockVars >>
  /\ UNCHANGED webVars

\* VideoCapture, cap.get or cap.read raises.  extract_frames has no handler:
\* the exception reaches analyze_video's except clause, or the direct caller.
\* _extract_sample_frames catches it and returns the frames kept so far.
SampleRaise ==
  /\ pc \in { "open", "loop" }
  /\ \/ /\ call = "analyze"
        /\ result' = AnalysisError
        /\ exception' = "injected"
        /\ pc' = "done"
        /\ UNCHANGED raised
     \/ /\ call = "extract"
        /\ raised' = TRUE
        /\ exception' = "injected"
        /\ pc' = "done"
        /\ UNCHANGED result
     \/ /\ call = "verify"
        /\ pc' = "indicators"
        /\ UNCHANGED << result, raised, exception >>
  /\ env' = env \cup { "raised" }
  /\ UNCHANGED << call, inputVars, max_frames, samplerVars, analysis_results,
                  geoVars, invoked, clockVars >>
  /\ UNCHANGED webVars

\* ------------------------------------------------------------ analyze_video
analyzeFrame ==
  << call, inputVars, max_frames, samplerVars, geoVars, raised, clockVars >>

\* one signal analyzer returns its report
AnalyzerStep(at, next, name, key, report) ==
  /\ call = "analyze"
  /\ pc = at
  /\ analysis_results' = analysis_results @@ (key :> report)
  /\ invoked' = invoked \cup { name }
  /\ pc' = next
  /\ UNCHANGED << analyzeFrame, result, exception, env >>
  /\ UNCHANGED webVars

\* face_analysis = self.analyze_face_consistency(frames)
AnalyzeFace ==
  AnalyzerStep("face", "lighting", "analyze_face_consistency", "face_consistency",
               analyze_face_consistency(video, frames))

\* lighting_analysis = self.analyze_lighting_consistency(frames)
AnalyzeLighting ==
  AnalyzerStep("lighting", "compression", "analyze_lighting_consistency",
               "lighting_consistency", analyze_lighting_consistency(video, frames))

\* compression_analysis = self.analyze_compression_artifacts(frames)
AnalyzeCompression ==
  /\ ~CompressionRaises(frames)
  /\ AnalyzerStep("compression", "temporal", "analyze_compression_artifacts",
                  "compression_artifacts", analyze_compression_artifacts(video, frames))

\* analyze_compression_artifacts raises ValueError; analyze_video's except returns
AnalyzeCompressionRaises ==
  /\ call = "analyze"
  /\ pc = "compression"
  /\ CompressionRaises(frames)
  /\ invoked' = invoked \cup { "analyze_compression_artifacts" }
  /\ exception' = "ValueError"
  /\ result' = AnalysisError
  /\ pc' = "done"
  /\ UNCHANGED << analyzeFrame, analysis_results, env >>
  /\ UNCHANGED webVars

\* temporal_analysis = self.analyze_temporal_consistency(frames)
AnalyzeTemporal ==
  AnalyzerStep("temporal", "audio", "analyze_temporal_consistency",
               "temporal_consistency", analyze_temporal_consistency(video, frames))

AudioAvailableOff(a) == a # "none"

\* if audio_path and os.path.exists(audio_path)
AudioAvailable(a) == a = "exists"

\* audio_analysis = {} / self.detect_audio_manipulation(audio_path)
AnalyzeAudio ==
  /\ call = "analyze"
  /\ pc = "audio"
  /\ IF AudioAvailable(audio_path)
     THEN /\ analysis_results' =
               analysis_results @@ ("audio_manipulation" :> detect_audio_manipulation)
          /\ invoked' = invoked \cup { "detect_audio_manipulation" }
     ELSE /\ analysis_results' = analysis_results @@ ("audio_manipulation" :> EmptyDict)
          /\ UNCHANGED invoked
  /\ pc' = "fuse"
  /\ UNCHANGED << analyzeFrame, result, exception, env >>
  /\ UNCHANGED webVars

\* detect_audio_manipulation fails inside: its own except returns the 0.5 report
AnalyzeAudioFallback ==
  /\ call = "analyze"
  /\ pc = "audio"
  /\ AudioAvailable(audio_path)
  /\ analysis_results' = analysis_results @@ ("audio_manipulation" :> AudioFallback)
  /\ invoked' = invoked \cup { "detect_audio_manipulation" }
  /\ env' = env \cup { "raised" }
  /\ pc' = "fuse"
  /\ UNCHANGED << analyzeFrame, result, exception >>
  /\ UNCHANGED webVars

\* score, classification, confidence, heatmap; return the record
AnalyzeReturn ==
  /\ call = "analyze"
  /\ pc = "fuse"
  /\ result' = AnalysisRecord(analysis_results, frames)
  /\ invoked' = invoked \cup { "calculate_deepfake_score", "_generate_heatmap_frames" }
  /\ pc' = "done"
  /\ UNCHANGED << analyzeFrame, analysis_results, exception, env >>
  /\ UNCHANGED webVars

\* a statement of the try block raises: except Exception returns the sentinel.
\* The audio step cannot: the path test does not raise and
\* detect_audio_manipulation handles its own exceptions.
AnalyzeRaise ==
  /\ call = "analyze"
  /\ pc \in { "face", "lighting", "compression", "temporal", "fuse" }
  /\ exception' = "injected"
  /\ env' = env \cup { "raised" }
  /\ result' = AnalysisError
  /\ pc' = "done"
  /\ UNCHANGED << analyzeFrame, analysis_results, invoked >>
  /\ UNCHANGED webVars

\* a direct call calculate_deepfake_score(analysis_results) on any reports:
\* each report is missing, lacks its metric, or carries the metric 0.0 or 1.0
MetricKey ==
  [face_consistency |-> "consistency_score", lighting_consistency |-> "shadow_consistency",
   compression_artifacts |-> "mean_artifact_score",
   temporal_consistency |-> "motion_consistency",
   audio_manipulation |-> "audio_manipulation_score"]

ReportChoices == { "missing", "nokey", "low", "high" }

ReportsOf(choice) ==
  LET present == { k \in DOMAIN choice : choice[k] # "missing" }
  IN  [k \in present |->
         IF choice[k] = "nokey" THEN EmptyDict
         ELSE (MetricKey[k] :> (IF choice[k] = "low" THEN 0 ELSE 100))]

ScoreCall ==
  /\ pc = "idle"
  /\ \E choice \in [DOMAIN MetricKey -> ReportChoices] :
       /\ analysis_results' = ReportsOf(choice)
       /\ result' = [deepfake_score |-> calculate_deepfake_score(ReportsOf(choice))]
  /\ call' = "score"
  /\ invoked' = invoked \cup { "calculate_deepfake_score" }
  /\ pc' = "done"
  /\ UNCHANGED << inputVars, max_frames, samplerVars, geoVars, raised, exception, env,
                  clockVars >>
  /\ UNCHANGED webVars

\* the frame list of a direct call on the whole of a video of n frames
AllPositions(n) == [i \in 1..n |-> i - 1]

directFrame ==
  << inputVars, max_frames, handles, frame_interval, frame_count, geoVars, raised,
     exception, env, clockVars >>

\* the three consistency analyzers called directly on a frame list
SignalCall ==
  /\ pc = "idle"
  /\ \E v \in Videos :
       LET fr == AllPositions(Len(v))
       IN  /\ frames' = fr
           /\ total_frames' = Len(v)
           /\ analysis_results' =
                [face_consistency |-> analyze_face_consistency(v, fr),
                 lighting_consistency |-> analyze_lighting_consistency(v, fr),
                 temporal_consistency |-> analyze_temporal_consistency(v, fr)]
  /\ call' = "signal"
  /\ result' = NoResult
  /\ invoked' = invoked \cup { "analyze_face_consistency", "analyze_lighting_consistency",
                                "analyze_temporal_consistency" }
  /\ pc' = "done"
  /\ UNCHANGED directFrame
  /\ UNCHANGED webVars

\* a direct call _generate_heatmap_frames(frames, analysis_results)
HeatmapCall ==
  /\ pc = "idle"
  /\ \E n \in 0..MaxHeatmapN, level \in { "missing", "low", "high" } :
       LET ar == ReportsOf([k \in DOMAIN MetricKey |-> level])
       IN  /\ frames' = AllPositions(n)
           /\ total_frames' = n
           /\ analysis_results' = ar
           /\ result' = [heatmap_frames |-> generate_heatmap_frames(AllPositions(n), ar)]
  /\ call' = "heatmap"
  /\ invoked' = invoked \cup { "_generate_heatmap_frames" }
  /\ pc' = "done"
  /\ UNCHANGED directFrame
  /\ UNCHANGED webVars

\* the indicator dictionaries of a direct call: any of the four weighted keys
\* and one key the weights do not name, each 0.0, 0.5 or 1.0
IndicatorNames ==
  { "indicators_found", "consistency", "landmark_detection", "text_recognition",
    "weather_consistency" }

IndicatorDicts == UNION { [ks -> { 0, 50, 100 }] : ks \in SUBSET IndicatorNames }

\* a direct call _calculate_location_consistency(indicators)
LocationCall ==
  /\ pc = "idle"
  /\ \E ind \in IndicatorDicts :
       result' = [consistency_score |-> calculate_location_consistency(ind),
                  location_indicators |-> ind]
  /\ call' = "location"
  /\ invoked' = invoked \cup { "_calculate_location_consistency" }
  /\ pc' = "done"
  /\ UNCHANGED << directFrame, total_frames, frames, analysis_results >>
  /\ UNCHANGED webVars

\* ------------------------------------------- verify_geospatial_authenticity
verifyFrame ==
  << call, inputVars, max_frames, analysis_results, raised, prev >>

\* extract_gps_metadata: cap = cv2.VideoCapture(video_path)
GpsOpen ==
  /\ call = "verify"
  /\ pc = "gps"
  /\ handles' = handles + 1
  /\ pc' = "gps_meta"
  /\ UNCHANGED << verifyFrame, total_frames, frame_interval, frame_count, frames,
                  geoVars, result, exception, invoked, env, now >>
  /\ UNCHANGED webVars

\* extract_gps_metadata: cap.release(); return the GPSMetadata.  The code fills
\* the record with the fixed values of SimulatedContainer; the record here is
\* built from any of Containers, of which SimulatedContainer is one, so that
\* the fusion is exercised on every metadata the dataclass can carry.
GpsMeta ==
  /\ call = "verify"
  /\ pc = "gps_meta"
  /\ handles' = handles - 1
  /\ gps_data' = Some(GPSMetadataOf(container, now))
  /\ pc' = "check"
  /\ UNCHANGED << verifyFrame, total_frames, frame_interval, frame_count, frames,
                  location_consistency, gps_manipulation, result, exception, invoked,
                  env, now >>
  /\ UNCHANGED webVars

\* extract_gps_metadata: except Exception: return None
GpsRaise ==
  /\ call = "verify"
  /\ pc \in { "gps", "gps_meta" }
  /\ gps_data' = None
  /\ env' = env \cup { "raised" }
  /\ pc' = "check"
  /\ UNCHANGED << verifyFrame, samplerVars, location_consistency, gps_manipulation,
                  result, exception, invoked, now >>
  /\ UNCHANGED webVars

NoGpsOff(gd) == FALSE

\* if not gps_data
NoGps(gd) == gd = None

\* return {"verification_status": "failed", ...}
VerifyNoGps ==
  /\ call = "verify"
  /\ pc = "check"
  /\ NoGps(gps_data)
  /\ result' = GeoFailed
  /\ pc' = "done"
  /\ UNCHANGED << verifyFrame, samplerVars, geoVars, exception, invoked, env, now >>
  /\ UNCHANGED webVars

\* location_consistency = self.verify_location_consistency(gps_data, video_path):
\* frames = self._extract_sample_frames(video_path, max_frames=20)
VerifyLocation ==
  /\ call = "verify"
  /\ pc = "check"
  /\ ~NoGps(gps_data)
  /\ invoked' = invoked \cup { "verify_location_consistency" }
  /\ max_frames' = GeoMaxFrames
  /\ pc' = "open"
  /\ UNCHANGED << call, inputVars, analysis_results, raised, samplerVars,
                  geoVars, result, exception, env, clockVars >>
  /\ UNCHANGED webVars

\* verify_location_consistency: indicators, consistency score, return the report
VerifyIndicators ==
  /\ call = "verify"
  /\ pc = "indicators"
  /\ location_consistency' = LocationReport(frames)
  /\ pc' = "manipulation"
  /\ UNCHANGED << verifyFrame, samplerVars, gps_data, gps_manipulation, result,
                  exception, invoked, env, now >>
  /\ UNCHANGED webVars

\* verify_location_consistency: except Exception returns the 0.5 report
VerifyLocationRaise ==
  /\ call = "verify"
  /\ pc = "indicators"
  /\ location_consistency' = LocationFallback
  /\ env' = env \cup { "raised" }
  /\ pc' = "manipulation"
  /\ UNCHANGED << verifyFrame, samplerVars, gps_data, gps_manipulation, result,
                  exception, invoked, now >>
  /\ UNCHANGED webVars

\* gps_manipulation = self.detect_gps_manipulation(gps_data)
VerifyManipulation ==
  /\ call = "verify"
  /\ pc = "manipulation"
  /\ invoked' = invoked \cup { "detect_gps_manipulation" }
  /\ IF gps_data = None
     THEN /\ exception' = "AttributeError"
          /\ result' = GeoError
          /\ pc' = "done"
          /\ UNCHANGED gps_manipulation
     ELSE /\ gps_manipulation' = detect_gps_manipulation(gps_data[1], now)
          /\ pc' = "fuse"
          /\ UNCHANGED << result, exception >>
  /\ UNCHANGED << verifyFrame, samplerVars, gps_data, location_consistency, env, now >>
  /\ UNCHANGED webVars

\* confidence, status; return the record
VerifyReturn ==
  /\ call = "verify"
  /\ pc = "fuse"
  /\ result' = GeoRecord(gps_data[1], location_consistency, gps_manipulation)
  /\ pc' = "done"
  /\ UNCHANGED << verifyFrame, samplerVars, geoVars, exception, invoked, env, now >>
  /\ UNCHANGED webVars

\* a statement of the try block after the extraction raises: except Exception
VerifyRaise ==
  /\ call = "verify"
  /\ pc \in { "manipulation", "fuse" }
  /\ invoked' = IF pc = "manipulation"
                THEN invoked \cup { "detect_gps_manipulation" }
                ELSE invoked
  /\ exception' = "injected"
  /\ env' = env \cup { "raised" }
  /\ result' = GeoError
  /\ pc' = "done"
  /\ UNCHANGED << verifyFrame, samplerVars, geoVars, now >>
  /\ UNCHANGED webVars

\* ------------------------------------------------- POST /video/analyze
\* The handler of api/video.py for one video.  Each request has its own
\* database session: db.add() only puts a row in the session, db.commit()
\* writes the session's rows and the video's status to the database.

\* what detection_engine.analyze_video can hand to the handler
HandlerDeepfakeResults ==
  { AnalysisError,
    AnalysisRecord(ReportsOf([k \in DOMAIN MetricKey |-> "high"]), AllPositions(2)) }

\* what geospatial_engine.verify_geospatial_authenticity can hand to the handler
HandlerGeoResults ==
  LET g == GPSMetadataOf(SimulatedContainer, 0)
  IN  { GeoFailed, GeoError,
        GeoRecord(g, LocationReport(AllPositions(1)), detect_gps_manipulation(g, 0)) }

\* the keys the handler reads with [] to build the AnalysisResult row
AnalysisResultKeys ==
  { "classification", "confidence", "deepfake_score", "manipulation_indicators",
    "heatmap_frames", "processing_time", "model_version" }

\* the keys the handler reads with [] to build the GeospatialData row
GeospatialDataKeys ==
  { "gps_metadata", "verification_status", "verification_confidence" }

ExistingAnalysisOff(rows) == { None }

\* db.query(AnalysisResult).filter(video_id == video.id).first(): no row, or
\* one of the rows (the query has no ORDER BY)
ExistingAnalysis(rows) ==
  IF rows = <<>> THEN { None } ELSE { Some(rows[i]) : i \in DOMAIN rows }

\* _create_analysis_response(video, analysis, db)
AnalysisResponse(analysis, geos) ==
  [status |-> 200,
   classification |-> analysis.classification,
   geospatial_verification |->
     IF geos = <<>> THEN None ELSE Some(geos[1].location_verification)]

SessionRows(session, kind) == SelectSeq(session, LAMBDA row : row.kind = kind)

\* the request arrives; 403 if the user may not analyze the video; the stored
\* analysis is returned if there is one; otherwise the handler goes on
HandlerLookup(r) ==
  /\ \/ call = "none" /\ pc = "idle"
     \/ call = "handler"
  /\ req[r].at \in { "idle", "done" }
  /\ started < MaxRequests
  /\ started' = started + 1
  /\ call' = "handler"
  /\ pc' = "serving"
  /\ \E authorized \in BOOLEAN, existing_analysis \in ExistingAnalysis(analysis_rows) :
       LET fresh == [IdleRequest EXCEPT !.authorized = authorized,
                                        !.existed = analysis_rows # <<>>]
       IN  req' = [req EXCEPT ![r] =
                     IF ~authorized
                     THEN [fresh EXCEPT !.at = "done", !.response = [status |-> 403]]
                     ELSE IF existing_analysis # None
                     THEN [fresh EXCEPT !.at = "done",
                                        !.response = AnalysisResponse(existing_analysis[1],
                                                                      geo_rows)]
                     ELSE [fresh EXCEPT !.at = "mark"]]
  /\ UNCHANGED << video_status, analysis_rows, geo_rows, engineData >>

\* video.status = "processing"; db.commit()
HandlerMarkProcessing(r) ==
  /\ call = "handler"
  /\ req[r].at = "mark"
  /\ video_status' = "processing"
  /\ req' = [req EXCEPT ![r].at = "engines", ![r].commits = @ + 1]
  /\ UNCHANGED << call, pc, analysis_rows, geo_rows, started, engineData >>

\* the two engine calls; both engines catch every exception and return a record
HandlerEngines(r) ==
  /\ call = "handler"
  /\ req[r].at = "engines"
  /\ \E d \in HandlerDeepfakeResults, g \in HandlerGeoResults :
       req' = [req EXCEPT ![r].deepfake_analysis = d,
                          ![r].geospatial_analysis = g,
                          ![r].engine_calls = @ + 2,
                          ![r].at = "build"]
  /\ UNCHANGED << call, pc, video_status, analysis_rows, geo_rows, started, engineData >>

\* analysis_result = AnalysisResult(...); db.add(analysis_result); the
\* GeospatialData row unless the status is "failed"; a missing key raises
\* KeyError, which the except clause of the handler catches
HandlerBuildRows(r) ==
  /\ call = "handler"
  /\ req[r].at = "build"
  /\ LET d == req[r].deepfake_analysis
         g == req[r].geospatial_analysis
         analysis_result == [kind |-> "analysis", by |-> r,
                             classification |-> Get(d, "classification", "")]
         geospatial_data == [kind |-> "geo", by |-> r,
                             location_verification |-> g.verification_status]
     IN  IF ~(AnalysisResultKeys \subseteq DOMAIN d)
         THEN req' = [req EXCEPT ![r].at = "fail"]
         ELSE IF g.verification_status = "failed"
         THEN req' = [req EXCEPT ![r].session = Append(@, analysis_result),
                                 ![r].at = "complete"]
         ELSE IF GeospatialDataKeys \subseteq DOMAIN g
         THEN req' = [req EXCEPT ![r].session = @ \o << analysis_result, geospatial_data >>,
                                 ![r].at = "complete"]
         ELSE req' = [req EXCEPT ![r].session = Append(@, analysis_result),
                                 ![r].at = "fail"]
  /\ UNCHANGED << call, pc, video_status, analysis_rows, geo_rows, started, engineData >>

\* video.status = "completed"; db.commit(); return _create_analysis_response(..)
HandlerComplete(r) ==
  /\ call = "handler"
  /\ req[r].at = "complete"
  /\ video_status' = "completed"
  /\ analysis_rows' = analysis_rows \o SessionRows(req[r].session, "analysis")
  /\ geo_rows' = geo_rows \o SessionRows(req[r].session, "geo")
  /\ req' = [req EXCEPT ![r].session = <<>>,
                        ![r].commits = @ + 1,
                        ![r].inserted = @ + Len(req[r].session),
                        ![r].response =
                          AnalysisResponse(SessionRows(req[r].session, "analysis")[1],
                                           geo_rows'),
                        ![r].at = "done"]
  /\ UNCHANGED << call, pc, started, engineData >>

\* except Exception: video.status = "failed"; db.commit(); raise HTTPException(500)
HandlerFail(r) ==
  /\ call = "handler"
  /\ req[r].at = "fail"
  /\ video_status' = "failed"
  /\ analysis_rows' = analysis_rows \o SessionRows(req[r].session, "analysis")
  /\ geo_rows' = geo_rows \o SessionRows(req[r].session, "geo")
  /\ req' = [req EXCEPT ![r].session = <<>>,
                        ![r].commits = @ + 1,
                        ![r].inserted = @ + Len(req[r].session),
                        ![r].response = [status |-> 500],
                        ![r].at = "done"]
  /\ UNCHANGED << call, pc, started, engineData >>

\* ----------------------------------------------------------- specification
Next ==
  \/ StartAnalyze \/ StartExtract \/ StartVerify \/ ScoreCall \/ SignalCall \/ HeatmapCall
  \/ LocationCall
  \/ Again \/ Tick
  \/ SampleOpen \/ SampleOpenRaises \/ SampleRead \/ SampleReturn \/ SampleRaise
  \/ AnalyzeFace \/ AnalyzeLighting \/ AnalyzeCompression \/ AnalyzeCompressionRaises
  \/ AnalyzeTemporal \/ AnalyzeAudio \/ AnalyzeAudioFallback \/ AnalyzeReturn \/ AnalyzeRaise
  \/ GpsOpen \/ GpsMeta \/ GpsRaise \/ VerifyNoGps \/ VerifyLocation
  \/ VerifyIndicators \/ VerifyLocationRaise \/ VerifyManipulation \/ VerifyReturn
  \/ VerifyRaise
  \/ \E r \in Requests :
       \/ HandlerLookup(r) \/ HandlerMarkProcessing(r) \/ HandlerEngines(r)
       \/ HandlerBuildRows(r) \/ HandlerComplete(r) \/ HandlerFail(r)

Spec == Init /\ [][Next]_vars

\* ------------------------------------------------------------------ claims
AnalyzeDone == call = "analyze" /\ pc = "done"
VerifyDone == call = "verify" /\ pc = "done"
Unit(x) == 0 <= x /\ x <= 10000

\* C1: the frame sampler never holds more than max_frames frames, nor more
\* frames than the source has, whichever reads succeed.
C1_SamplerLengthBound ==
  /\ Len(frames) <= max_frames
  /\ Len(frames) <= total_frames

\* C1 witness: a direct call returned with the cap binding on a source whose
\* length max_frames does not divide, after a failed read.
C1_Witness ==
  /\ call = "extract" /\ pc = "done" /\ ~raised
  /\ Len(result.frames) = max_frames
  /\ total_frames % max_frames # 0
  /\ frame_count > Len(result.frames)

\* C2: a non-error result is "deepfake" exactly above 0.7, "real" exactly
\* below 0.3 and "uncertain" in between, both thresholds included.
C2_ClassificationByScore ==
  (AnalyzeDone /\ result.classification # "error") =>
    /\ result.classification = "deepfake" <=> result.deepfake_score > 7000
    /\ result.classification = "real" <=> result.deepfake_score < 3000
    /\ result.classification = "uncertain" <=>
         (3000 <= result.deepfake_score /\ result.deepfake_score <= 7000)

\* C2 witness: a score of exactly 0.7 classified "uncertain".
C2_Witness ==
  AnalyzeDone /\ result.deepfake_score = 7000 /\ result.classification = "uncertain"

\* C3: deepfake_score and confidence of every analyze_video result, and the
\* score of every calculate_deepfake_score call, lie in [0,1]; the weights
\* sum to 1.0.
C3_ScoresInUnitInterval ==
  /\ SumSeq([i \in 1..Len(WeightKeys) |-> FusionWeights[WeightKeys[i]]]) = 100
  /\ AnalyzeDone => Unit(result.deepfake_score) /\ Unit(result.confidence)
  /\ (call = "score" /\ pc = "done") => Unit(result.deepfake_score)

\* C3 witness: every sub-score at its best gives the score 0.0, the edge of
\* the interval.
C3_Witness ==
  /\ call = "score" /\ pc = "done"
  /\ DOMAIN analysis_results = DOMAIN MetricKey
  /\ result.deepfake_score = 0

\* C4: analyze_video raises nothing; an exception in its try block gives the
\* sentinel (error, 0.5, 0.0, no indicators, no heatmap), and only an
\* exception gives the classification "error".
C4_ErrorSentinel ==
  AnalyzeDone =>
    /\ ~raised
    /\ exception # "none" <=> result.classification = "error"
    /\ result.classification = "error" =>
         /\ result.deepfake_score = 5000
         /\ result.confidence = 0
         /\ DOMAIN result.manipulation_indicators = {}
         /\ result.heatmap_frames = <<>>

\* C4 witness: an analyzer raised after frames were sampled.
C4_Witness ==
  /\ AnalyzeDone /\ exception = "injected" /\ Len(frames) > 0
  /\ "analyze_face_consistency" \in invoked
  /\ result.classification = "error"

\* C5: verify_geospatial_authenticity raises nothing; an exception reaching
\* its except clause gives status "error" with confidence 0.0; every status
\* is one of verified, uncertain, suspicious, failed, error.
C5_GeoErrorSentinel ==
  VerifyDone =>
    /\ ~raised
    /\ result.verification_status \in
         { "verified", "uncertain", "suspicious", "failed", "error" }
    /\ exception # "none" =>
         /\ result.verification_status = "error"
         /\ result.verification_confidence = 0

\* C5 witness: detect_gps_manipulation raised on extracted metadata.
C5_Witness ==
  /\ VerifyDone /\ gps_data # None /\ exception = "injected"
  /\ result.verification_status = "error"

\* C6: with zero or one sampled frame and no other failure, analyze_video
\* returns real, uncertain or deepfake, never the error sentinel.
C6_DegenerateFramesAbsorbed ==
  (AnalyzeDone /\ Len(frames) <= 1 /\ exception # "injected") =>
    result.classification \in { "real", "uncertain", "deepfake" }

\* C7: without GPS metadata the status is "failed" and neither
\* verify_location_consistency nor detect_gps_manipulation is ever invoked.
C7_NoGpsShortCircuit ==
  (call = "verify" /\ gps_data = None) =>
    /\ invoked \cap { "verify_location_consistency", "detect_gps_manipulation" } = {}
    /\ pc = "done" => result.verification_status = "failed"

\* C7 witness: the extraction failed and the call returned.
C7_Witness ==
  VerifyDone /\ gps_data = None /\ result.verification_status = "failed"

\* C8: with metadata and no exception the status is "verified" exactly above
\* 0.7, "suspicious" exactly below 0.3, "uncertain" in between, thresholds
\* included.
C8_GeoStatusByConfidence ==
  (VerifyDone /\ gps_data # None /\ exception = "none") =>
    /\ result.verification_status = "verified" <=> result.verification_confidence > 7000
    /\ result.verification_status = "suspicious" <=> result.verification_confidence < 3000
    /\ result.verification_status = "uncertain" <=>
         (3000 <= result.verification_confidence /\ result.verification_confidence <= 7000)

\* C8 witness: a confidence of exactly 0.7 with status "uncertain".
C8_Witness ==
  /\ VerifyDone /\ gps_data # None /\ exception = "none"
  /\ result.verification_confidence = 7000
  /\ result.verification_status = "uncertain"

\* C9: verification_confidence is (consistency_score + (1 - overall
\* manipulation probability)) / 2 and lies in [0,1], the 0.5 fallback of a
\* failed location analysis included.
C9_ConfidenceFormula ==
  (VerifyDone /\ gps_data # None /\ exception = "none") =>
    /\ 2 * result.verification_confidence =
         location_consistency.consistency_score
           + (10000 - gps_manipulation.overall_manipulation_probability)
    /\ Unit(result.verification_confidence)

\* C9 witness: the location analysis failed and its 0.5 entered the fusion.
C9_Witness ==
  /\ VerifyDone /\ gps_data # None /\ exception = "none"
  /\ container = SimulatedContainer
  /\ location_consistency.verification_method = "error"
  /\ location_consistency.consistency_score = 5000
  /\ gps_manipulation.overall_manipulation_probability = 1000

\* C10: confidence is 1 - deepfake_score for "real" and deepfake_score for
\* "deepfake" and "uncertain".
C10_ConfidenceByClassification ==
  (AnalyzeDone /\ result.classification # "error") =>
    /\ result.classification = "real" => result.confidence = 10000 - result.deepfake_score
    /\ result.classification \in { "deepfake", "uncertain" } =>
         result.confidence = result.deepfake_score

\* C10 witness: a "real" result and its confidence.
C10_Witness ==
  /\ AnalyzeDone /\ result.classification = "real"
  /\ result.confidence > 7000

\* C11: without an audio file the audio analyzer is not invoked, the audio
\* term enters the weighted score as 0.10 x 0.5, and an undisturbed run on a
\* video with frames does not end in "error".
C11_AudioAbsenceNeutral ==
  (AnalyzeDone /\ audio_path \in { "none", "missing" }) =>
    /\ "detect_audio_manipulation" \notin invoked
    /\ result.classification = "error" => exception # "none"
    /\ (Clean(env) /\ Len(frames) >= 1) => result.classification # "error"
    /\ result.classification # "error" =>
         LET ind == result.manipulation_indicators
         IN  /\ DOMAIN ind.audio_manipulation = {}
             /\ 10000 - result.deepfake_score =
                  30 * ind.face_consistency.consistency_score
                  + 20 * ind.lighting_consistency.shadow_consistency
                  + 25 * (100 - ind.compression_artifacts.mean_artifact_score)
                  + 15 * ind.temporal_consistency.motion_consistency
                  + 10 * 50

\* C11 witness: an audio path that names no file, and a completed analysis.
C11_Witness ==
  /\ AnalyzeDone /\ audio_path = "missing" /\ Len(frames) >= 2
  /\ result.classification = "real"

AnalyzeKeys ==
  { "classification", "confidence", "deepfake_score", "manipulation_indicators",
    "heatmap_frames", "processing_time", "model_version", "frames_analyzed" }

GeoKeys ==
  { "verification_status", "verification_confidence", "gps_metadata",
    "location_consistency", "gps_manipulation", "processing_time",
    "verification_methods" }

\* C12: every returned record carries every field of its result type, on
\* the failure paths too.
C12_FullyPopulated ==
  /\ AnalyzeDone => AnalyzeKeys \subseteq DOMAIN result
  /\ VerifyDone => GeoKeys \subseteq DOMAIN result

\* C13: when no frame can be decoded (the file does not open, or every read
\* fails) the sampler returns the empty list and raises nothing, whatever
\* max_frames is.
C13_UndecodableGivesEmpty ==
  /\ (call = "extract" /\ pc = "done" /\ env \cap { "read_ok", "raised" } = {}) =>
       ~raised /\ result.frames = <<>>
  /\ (call = "verify" /\ pc = "indicators" /\ "read_ok" \notin env) => frames = <<>>

\* C14: outside the sampler loop and the metadata extraction no capture
\* handle is open: every call that opened one released it before returning.
C14_HandlesReleased ==
  pc \notin { "loop", "gps_meta" } => handles = 0

\* C15: a call repeated on the same input, with the decoder and the
\* libraries behaving the same, returns the record the first call returned
\* (processing_time is constant here).  For verify the input is the metadata
\* the extractor itself produces.
C15_RepeatSameResult ==
  ( /\ prev # None /\ pc = "done"
    /\ Clean(env) /\ exception = "none"
    /\ call = "verify" => container = SimulatedContainer ) =>
    result = prev[1]

\* the frames the sampling rule keeps of T frames: the multiples of the stride
\* from 0 on, at most m of them
ExpectedKept(T, m) ==
  LET stride == IF T \div m > 1 THEN T \div m ELSE 1
      n == Min(m, (T + stride - 1) \div stride)
  IN  [i \in 1..n |-> (i - 1) * stride]

SamplerReturned ==
  \/ call = "extract" /\ pc = "done" /\ ~raised
  \/ call = "analyze" /\ pc = "face"
  \/ call = "verify" /\ pc = "indicators"

\* C16: when every read succeeds the sampler keeps exactly the positions that
\* are multiples of the stride, in increasing order from 0, and stops once
\* max_frames are kept or the source is exhausted.
C16_KeepsStrideMultiples ==
  (SamplerReturned /\ Clean(env) /\ max_frames >= 1) =>
    /\ frames = ExpectedKept(total_frames, max_frames)
    /\ frame_count = IF Len(frames) = max_frames
                     THEN frames[Len(frames)] + 1
                     ELSE total_frames

\* C16 witness: 5 frames, max_frames 2: stride 2, positions 0 and 2 kept, and
\* the loop stopped before position 4.
C16_Witness ==
  /\ call = "extract" /\ pc = "done" /\ ~raised /\ Clean(env)
  /\ total_frames = 5 /\ max_frames = 2
  /\ result.frames = << 0, 2 >>
  /\ frame_count = 3

\* a metric of the analysis results, 0.5 when its report or its key is missing
MetricOrHalf(ar, report, key) ==
  IF report \in DOMAIN ar
  THEN IF key \in DOMAIN ar[report] THEN ar[report][key] ELSE 50
  ELSE 50

WeightedFormula(ar) ==
  30 * MetricOrHalf(ar, "face_consistency", "consistency_score")
  + 20 * MetricOrHalf(ar, "lighting_consistency", "shadow_consistency")
  + 25 * (100 - MetricOrHalf(ar, "compression_artifacts", "mean_artifact_score"))
  + 15 * MetricOrHalf(ar, "temporal_consistency", "motion_consistency")
  + 10 * (100 - MetricOrHalf(ar, "audio_manipulation", "audio_manipulation_score"))

\* C17: the deepfake score is 1 - (0.30 face + 0.20 lighting + 0.25 (1 -
\* artifact) + 0.15 motion + 0.10 (1 - audio)), a missing metric counting 0.5.
C17_ScoreFormula ==
  /\ (call = "score" /\ pc = "done") =>
       result.deepfake_score = 10000 - WeightedFormula(analysis_results)
  /\ (AnalyzeDone /\ result.classification # "error") =>
       result.deepfake_score = 10000 - WeightedFormula(result.manipulation_indicators)

\* C17 witness: the face report is missing, the lighting report lacks its
\* key, the other three metrics are 0.0, 1.0 and 1.0: the score is 0.35.
C17_Witness ==
  /\ call = "score" /\ pc = "done"
  /\ "face_consistency" \notin DOMAIN analysis_results
  /\ "lighting_consistency" \in DOMAIN analysis_results
  /\ DOMAIN analysis_results.lighting_consistency = {}
  /\ result.deepfake_score = 3500

ConsistencyMetrics ==
  [face_consistency |-> << "consistency_score", "face_count_variance" >>,
   lighting_consistency |-> << "shadow_consistency", "lighting_variance" >>,
   temporal_consistency |-> << "motion_consistency", "temporal_variance" >>]

\* C18: the three consistency scores are in [0,1] for every frame list, and
\* for fewer than 2 frames each is 0.0 and so is its variance.
C18_ConsistencyScores ==
  (call \in { "analyze", "signal" }) =>
    \A k \in DOMAIN ConsistencyMetrics \cap DOMAIN analysis_results :
      LET report == analysis_results[k]
          score == report[ConsistencyMetrics[k][1]]
          variance == report[ConsistencyMetrics[k][2]]
      IN  /\ 0 <= score /\ score <= 100
          /\ Len(frames) < 2 => score = 0 /\ variance = 0

\* C18 witness: a single sampled frame went through all three analyzers.
C18_Witness ==
  /\ call = "analyze" /\ Len(frames) = 1
  /\ DOMAIN ConsistencyMetrics \subseteq DOMAIN analysis_results
  /\ analysis_results.temporal_consistency.motion_consistency = 0

\* the indices below min(10, n) that 3 divides, in increasing order
ExpectedHeatmap(n) ==
  SelectSeq([i \in 1..Min(10, n) |-> i - 1], LAMBDA x : x % 3 = 0)

\* C19: heatmap_frames is the increasing list of the indices i < min(10, n)
\* with i divisible by 3, whatever the signal values.
C19_HeatmapIndices ==
  /\ (call = "heatmap" /\ pc = "done") =>
       result.heatmap_frames = ExpectedHeatmap(Len(frames))
  /\ (AnalyzeDone /\ result.classification # "error") =>
       result.heatmap_frames = ExpectedHeatmap(result.frames_analyzed)

\* C19 witness: 13 frames give 0, 3, 6, 9 and not 12.
C19_Witness ==
  /\ call = "heatmap" /\ pc = "done" /\ Len(frames) = 13
  /\ DOMAIN analysis_results # {}
  /\ result.heatmap_frames = << 0, 3, 6, 9 >>

\* C20: timestamp_mismatch is 0.5 exactly when the metadata has no
\* timestamp, 0.8 when the timestamp is more than 24 hours from now in
\* either direction, 0.1 when it is within 24 hours, 24 hours included.
C20_TimestampMismatch ==
  (call = "verify" /\ pc = "fuse") =>
    LET ts == gps_data[1].timestamp
        tm == gps_manipulation.manipulation_scores.timestamp_mismatch
    IN  /\ tm = 5000 <=> ts = None
        /\ ts # None =>
             LET diff == IF now >= ts[1] THEN now - ts[1] ELSE ts[1] - now
             IN  /\ diff > 86400 => tm = 8000
                 /\ diff <= 86400 => tm = 1000

\* C20 witness: a timestamp exactly 24 hours old scored 0.1.
C20_Witness ==
  /\ call = "verify" /\ pc = "fuse" /\ now = 0
  /\ gps_data[1].timestamp = Some(0 - 86400)
  /\ gps_manipulation.manipulation_scores.timestamp_mismatch = 1000

\* C21: with accuracy present, 0 included, accuracy_anomaly is 0.7 below
\* 1 m, 0.6 above 50 m and 0.1 from 1 m to 50 m; it is 0.5 only when the
\* accuracy is absent.
C21_AccuracyAnomaly ==
  (call = "verify" /\ pc = "fuse") =>
    LET acc == gps_data[1].accuracy
        score == gps_manipulation.manipulation_scores.accuracy_anomaly
    IN  /\ score = 5000 <=> acc = None
        /\ acc # None =>
             score = IF acc[1] < 10 THEN 7000
                     ELSE IF acc[1] > 500 THEN 6000
                     ELSE 1000

\* C22: with the satellite count present, 0 included, satellite_anomaly is
\* 0.8 below 4, 0.6 above 12 and 0.1 from 4 to 12; it is 0.5 only when the
\* count is absent.
C22_SatelliteAnomaly ==
  (call = "verify" /\ pc = "fuse") =>
    LET sat == gps_data[1].satellites
        score == gps_manipulation.manipulation_scores.satellite_anomaly
    IN  /\ score = 5000 <=> sat = None
        /\ sat # None =>
             score = IF sat[1] < 4 THEN 8000
                     ELSE IF sat[1] > 12 THEN 6000
                     ELSE 1000

PatternNames == { "gps_jump", "timestamp_mismatch", "accuracy_anomaly", "satellite_anomaly" }

\* C23: detect_gps_manipulation scores exactly the four patterns, gps_jump
\* being 0.1; the overall probability is their arithmetic mean and the
\* triggered patterns are the names scoring strictly more than 0.5.  Accuracy
\* 0.5, 3 satellites and timestamp now give 0.425 and the two anomalies.
C23_ManipulationFusion ==
  (call = "verify" /\ pc = "fuse") =>
    LET ms == gps_manipulation.manipulation_scores
        overall == gps_manipulation.overall_manipulation_probability
        triggered == gps_manipulation.suspicious_patterns
    IN  /\ DOMAIN ms = PatternNames
        /\ ms.gps_jump = 1000
        /\ 4 * overall = ms.gps_jump + ms.timestamp_mismatch + ms.accuracy_anomaly
                         + ms.satellite_anomaly
        /\ \A k \in PatternNames : k \in triggered <=> ms[k] > 5000
        /\ triggered \subseteq PatternNames
        /\ ( /\ container.ts.kind = "now"
             /\ gps_data[1].accuracy = Some(5)
             /\ gps_data[1].satellites = Some(3) ) =>
             /\ overall = 4250
             /\ triggered = { "accuracy_anomaly", "satellite_anomaly" }

\* C23 witness: the scenario of accuracy 0.5, 3 satellites, timestamp now.
C23_Witness ==
  /\ call = "verify" /\ pc = "fuse"
  /\ container.ts.kind = "now"
  /\ gps_data[1].accuracy = Some(5)
  /\ gps_data[1].satellites = Some(3)
  /\ gps_manipulation.overall_manipulation_probability = 4250

WeightedTerm(ind, k, w) == IF k \in DOMAIN ind THEN w * ind[k] ELSE 0
PresentWeight(ind, k, w) == IF k \in DOMAIN ind THEN w ELSE 0

\* the weighted average over the present keys, in 1/10000, rounded down
ExpectedLocation(ind) ==
  LET num == WeightedTerm(ind, "indicators_found", 30) + WeightedTerm(ind, "consistency", 40)
             + WeightedTerm(ind, "landmark_detection", 20)
             + WeightedTerm(ind, "text_recognition", 10)
      den == PresentWeight(ind, "indicators_found", 30) + PresentWeight(ind, "consistency", 40)
             + PresentWeight(ind, "landmark_detection", 20)
             + PresentWeight(ind, "text_recognition", 10)
  IN  IF den = 0 THEN 0 ELSE (100 * num) \div den

\* C24: _calculate_location_consistency is the weighted average of the
\* present keys among indicators_found 0.3, consistency 0.4,
\* landmark_detection 0.2, text_recognition 0.1, normalised by the weights of
\* the present keys; other keys are ignored, the result is in [0,1], and it
\* is 0.0 when none of the four keys is present.
C24_LocationWeightedAverage ==
  /\ (call = "location" /\ pc = "done") =>
       /\ result.consistency_score = ExpectedLocation(result.location_indicators)
       /\ Unit(result.consistency_score)
       /\ DOMAIN result.location_indicators \cap DOMAIN LocationWeights = {} =>
            result.consistency_score = 0
  /\ (call = "verify" /\ pc = "manipulation"
      /\ location_consistency.verification_method = "visual_analysis") =>
       location_consistency.consistency_score =
         ExpectedLocation(location_consistency.location_indicators)

\* C24 witness: only consistency (0.5) and a key without weight (1.0) are
\* present: the result is 0.5, not 0.2 and not raised by the extra key.
C24_Witness ==
  /\ call = "location" /\ pc = "done"
  /\ DOMAIN result.location_indicators = { "consistency", "weather_consistency" }
  /\ result.location_indicators.consistency = 50
  /\ result.location_indicators.weather_consistency = 100
  /\ result.consistency_score = 5000

C29_SamplerTerminates ==
  /\ []((SamplerReturned /\ Clean(env) /\ max_frames >= 1) =>
          Len(frames) = Min(total_frames, max_frames))
  /\ []((pc = "loop" /\ max_frames >= 1) =>
          /\ frame_count <= total_frames
          /\ ENABLED (SampleRead \/ SampleReturn))
  /\ [][(pc = "loop" /\ pc' = "loop") => frame_count' = frame_count + 1]_vars

\* C29 witness: 3 frames, max_frames 2: the loop stopped after two reads.
C29_Witness ==
  /\ call = "extract" /\ pc = "done" /\ ~raised /\ Clean(env)
  /\ total_frames = 3 /\ max_frames = 2
  /\ Len(result.frames) = 2
  /\ frame_count = 2

\* C25: a /video/analyze request that ends in the failure branch (status
\* 'failed', HTTP 500) has committed no AnalysisResult and no GeospatialData
\* row, and a video with status 'failed' has no AnalysisResult.
C25_FailureCommitsNoRows ==
  /\ \A r \in Requests :
       (req[r].at = "done" /\ req[r].response = [status |-> 500]) => req[r].inserted = 0
  /\ video_status = "failed" => analysis_rows = <<>>

\* C26: whatever the requests for the video and however their steps
\* interleave, the video has at most one AnalysisResult row and at most one
\* GeospatialData row.
C26_AtMostOneRow ==
  /\ Len(analysis_rows) <= 1
  /\ Len(geo_rows) <= 1

\* C27: a request that finds an AnalysisResult row for the video returns a
\* stored result, calls no engine, commits nothing (no status change, no
\* row added or altered).
C27_StoredResultReturned ==
  \A r \in Requests :
    (req[r].at # "idle" /\ req[r].authorized /\ req[r].existed) =>
      /\ req[r].at = "done"
      /\ req[r].engine_calls = 0
      /\ req[r].commits = 0
      /\ req[r].inserted = 0
      /\ req[r].response.status = 200
      /\ \E i \in DOMAIN analysis_rows :
           req[r].response.classification = analysis_rows[i].classification

\* C27 witness: after a completed analysis a second request got the stored
\* result and the video is still 'completed' with its one row.
C27_Witness ==
  /\ started = 2
  /\ video_status = "completed"
  /\ Len(analysis_rows) = 1
  /\ \E r \in Requests :
       /\ req[r].at = "done" /\ req[r].authorized /\ req[r].existed
       /\ req[r].response.status = 200
       /\ analysis_rows[1].by # r

====
